---- MODULE Spec2Model ----
(***************************************************************************)
(* Model of src/encoding.py: the generator picturize_data (with its nested *)
(* create_metadata_frame) and its consumer encode_video, which pipes the   *)
(* frames into an external ffmpeg process.                                 *)
(*                                                                         *)
(* Strings are sequences of character codes (ord values), so "2x2" is      *)
(* <<50, 120, 50>>.  A frame is a function                                 *)
(*   [0..height-1 -> [0..width-1 -> [0..2 -> 0..255]]]                     *)
(* indexed exactly as the numpy array arr[row, column, channel].           *)
(* Exceptions are modelled by the name of the Python exception class.      *)
(***************************************************************************)
EXTENDS Integers, Sequences, FiniteSets, TLC

\* Longest file content explored (bytes).
MaxFileLen == 10

Min(a, b) == IF a < b THEN a ELSE b

\* Assignment into a uint8 array casts with wrap-around (lines 49-51).
Uint8(v) == v % 256

(***************************************************************************)
(* Builtins used by the source.                                            *)
(***************************************************************************)
RECURSIVE SplitAcc(_, _, _, _)
SplitAcc(s, sep, cur, acc) ==
    IF s = <<>> THEN Append(acc, cur)
    ELSE IF Head(s) = sep THEN SplitAcc(Tail(s), sep, <<>>, Append(acc, cur))
    ELSE SplitAcc(Tail(s), sep, Append(cur, Head(s)), acc)

\* str.split(sep): the list of parts between separators, never empty.
split(s, sep) == SplitAcc(s, sep, <<>>, <<>>)

IsDigit(c) == c \in 48..57

RECURSIVE DigitsVal(_)
DigitsVal(d) ==
    IF d = <<>> THEN 0
    ELSE DigitsVal(SubSeq(d, 1, Len(d) - 1)) * 10 + (d[Len(d)] - 48)

\* The digits of an int() literal after an optional sign.
IntBody(p) == IF p # <<>> /\ p[1] \in {43, 45} THEN Tail(p) ELSE p

\* int(p) succeeds on an optional sign followed by one or more digits
\* (whitespace and underscores are not among the inputs explored).
IntOk(p) == IntBody(p) # <<>> /\ \A i \in 1..Len(IntBody(p)) : IsDigit(IntBody(p)[i])

IntVal(p) == IF p # <<>> /\ p[1] = 45 THEN 0 - DigitsVal(IntBody(p)) ELSE DigitsVal(IntBody(p))

\* str(n) for n >= 0: the decimal digits as character codes.
RECURSIVE Str(_)
Str(n) == IF n < 10 THEN <<48 + n>> ELSE Append(Str(n \div 10), 48 + (n % 10))

\* Line 61: width, height = list(map(int, resolution.split("x"))).
\* int() raises ValueError on a non-numeric part; unpacking raises ValueError
\* unless there are exactly two parts.
ParseResolution(res) ==
    LET parts == split(res, 120) IN
    IF \E i \in 1..Len(parts) : ~IntOk(parts[i])
    THEN [err |-> "ValueError", width |-> 0, height |-> 0]
    ELSE IF Len(parts) # 2
    THEN [err |-> "ValueError", width |-> 0, height |-> 0]
    ELSE [err |-> "none", width |-> IntVal(parts[1]), height |-> IntVal(parts[2])]

\* Line 65: file_extension = file_path.split(".")[-1].
FileExtension(path) == LET parts == split(path, 46) IN parts[Len(parts)]

(***************************************************************************)
(* create_metadata_frame (lines 41-58).                                    *)
(***************************************************************************)
\* np.zeros((height, width, 1)), line 49, as a single-channel grid.
Zeros(h, w) == [r \in 0..(h - 1) |-> [c \in 0..(w - 1) |-> 0]]

\* arr[row, :n] = vals.reshape(n, 1)  (lines 50-51).  The slice holds
\* min(n, width) cells; numpy broadcasts only equal lengths or length 1.
SetRowSlice(arr, row, n, vals, w, h) ==
    LET k == Min(n, w) IN
    IF row >= h THEN [err |-> "IndexError", arr |-> arr]
    ELSE IF ~(Len(vals) = k \/ Len(vals) = 1) THEN [err |-> "ValueError", arr |-> arr]
    ELSE [err |-> "none",
          arr |-> [arr EXCEPT ![row] =
                     [c \in 0..(w - 1) |->
                        IF c < k THEN Uint8(IF Len(vals) = 1 THEN vals[1] ELSE vals[c + 1])
                        ELSE @[c]]]]

\* np.repeat(arr, 3, axis=2)  (lines 52 and 80).
Repeat3(arr) ==
    [r \in DOMAIN arr |-> [c \in DOMAIN arr[r] |-> [ch \in 0..2 |-> arr[r][c]]]]

\* A bounds-tolerant variant: the column is clipped into the row.
SetPixelClipped(arr, row, col, ch, v, w, h) ==
    IF row >= h \/ w = 0 THEN [err |-> "IndexError", arr |-> arr]
    ELSE [err |-> "none", arr |-> [arr EXCEPT ![row][Min(col, w - 1)][ch] = v]]

\* arr[row, col, ch] = v  (lines 56-57): IndexError outside the array, a
\* negative index counts from the end.
SetPixel(arr, row, col, ch, v, w, h) ==
    LET c == IF col < 0 THEN col + w ELSE col IN
    IF row >= h \/ c < 0 \/ c >= w THEN [err |-> "IndexError", arr |-> arr]
    ELSE [err |-> "none", arr |-> [arr EXCEPT ![row][c][ch] = v]]

\* The sentinel lands on the last data byte.
SentinelColumnOnLastByte(len) == len - 1

\* Lines 56-57: the sentinel is written at column size_len / extension_len.
SentinelColumn(len) == len

\* The sentinels are written before the channels are replicated, so they
\* come out as (255, 255, 255).
create_metadata_frame_SentinelFirst(fsize, fext, w, h) ==
    LET size_len == Len(Str(fsize))
        extension_len == Len(fext)
        Raise(e) == [err |-> e, frame |-> <<>>]
    IN
    IF h < 0 \/ w < 0 THEN Raise("ValueError")
    ELSE
    LET s50 == SetRowSlice(Zeros(h, w), 0, size_len, Str(fsize), w, h) IN
    IF s50.err # "none" THEN Raise(s50.err)
    ELSE
    LET s51 == SetRowSlice(s50.arr, 1, extension_len, fext, w, h) IN
    IF s51.err # "none" THEN Raise(s51.err)
    ELSE
    LET s56 == SetPixel(Repeat3(s51.arr), 0, SentinelColumn(size_len), 0, 255, w, h) IN
    IF s56.err # "none" THEN Raise(s56.err)
    ELSE
    LET s57 == SetPixel(s56.arr, 1, SentinelColumn(extension_len), 0, 255, w, h) IN
    IF s57.err # "none" THEN Raise(s57.err)
    ELSE [err |-> "none",
          frame |-> [r \in 0..(h - 1) |-> [c \in 0..(w - 1) |-> [ch \in 0..2 |->
                        s57.arr[r][c][0]]]]]

\* Lines 41-58.  Each numpy statement either raises or produces the next
\* array; the first exception leaves the function.
create_metadata_frame(fsize, fext, w, h) ==
    LET size_len == Len(Str(fsize))
        extension_len == Len(fext)
        size_as_bytes == Str(fsize)
        extension_as_bytes == fext
        Raise(e) == [err |-> e, frame |-> <<>>]
    IN
    IF h < 0 \/ w < 0 THEN Raise("ValueError")      \* line 49, negative dimension
    ELSE
    LET s50 == SetRowSlice(Zeros(h, w), 0, size_len, size_as_bytes, w, h) IN
    IF s50.err # "none" THEN Raise(s50.err)
    ELSE
    LET s51 == SetRowSlice(s50.arr, 1, extension_len, extension_as_bytes, w, h) IN
    IF s51.err # "none" THEN Raise(s51.err)
    ELSE
    LET s56 == SetPixel(Repeat3(s51.arr), 0, SentinelColumn(size_len), 0, 255, w, h) IN
    IF s56.err # "none" THEN Raise(s56.err)
    ELSE
    LET s57 == SetPixel(s56.arr, 1, SentinelColumn(extension_len), 0, 255, w, h) IN
    IF s57.err # "none" THEN Raise(s57.err)
    ELSE [err |-> "none", frame |-> s57.arr]

(***************************************************************************)
(* Payload frames (lines 70-82).                                           *)
(***************************************************************************)
\* A read that returns one byte less than asked for.
ReadChunkShort(data, pos, n) == SubSeq(data, pos + 1, Min(pos + n - 1, Len(data)))

\* f.read(n) at file position pos (line 71): up to n bytes, empty at EOF.
ReadChunk(data, pos, n) == SubSeq(data, pos + 1, Min(pos + n, Len(data)))

\* Padding placed in front of the data instead of behind it.
PadFront(bytes, n) == [i \in 1..(n - Len(bytes)) |-> 0] \o bytes

\* np.pad(byte_arr, (0, n - len(byte_arr)), mode="constant")  (lines 75-79).
Pad(bytes, n) == bytes \o [i \in 1..(n - Len(bytes)) |-> 0]

\* A column-major fill of the grid.
ReshapeColumnMajor(flat, h, w) ==
    [r \in 0..(h - 1) |-> [c \in 0..(w - 1) |-> flat[c * h + r + 1]]]

\* np.reshape(byte_arr, (height, width, 1))  (line 80): row-major.
Reshape(flat, h, w) ==
    [r \in 0..(h - 1) |-> [c \in 0..(w - 1) |-> flat[r * w + c + 1]]]

\* Lines 74-80: one chunk turned into a 3-channel frame.
PayloadFrame(chunk, w, h) == Repeat3(Reshape(Pad(chunk, w * h), h, w))

\* process.stdin.write(frame) sends the array's buffer (line 131):
\* row-major, channel-interleaved, width*height*3 bytes.
tobytes(fr, w, h) ==
    [i \in 1..(w * h * 3) |->
        fr[((i - 1) \div 3) \div w][((i - 1) \div 3) % w][(i - 1) % 3]]

(***************************************************************************)
(* Inputs explored.                                                        *)
(***************************************************************************)
\* File contents: n bytes, byte i (from 0) is (base + i*step) mod 256.
\* The families hold all-zero files, files ending in zero bytes, files
\* with the byte 255 and files whose chunks all differ.
Content(n, base, step) == [i \in 1..n |-> (base + (i - 1) * step) % 256]

Contents == {Content(n, b, st) : n \in 0..MaxFileLen, b \in {0, 250}, st \in {0, 1, 85}}

\* "a.b"  "a.<U+00FF>"  "a.<U+0142>b"  "a.b.bin"  "a."  "ab"
Paths == { <<97, 46, 98>>, <<97, 46, 255>>, <<97, 46, 322, 98>>,
           <<97, 46, 98, 46, 98, 105, 110>>, <<97, 46>>, <<97, 98>> }

\* "2x2" "3x2" "4x2" "1x2" "2x1" and "0x2" "2x0" "-2x2" "ax2" "22"
Resolutions == { <<50, 120, 50>>, <<51, 120, 50>>, <<52, 120, 50>>,
                 <<49, 120, 50>>, <<50, 120, 49>>,
                 <<48, 120, 50>>, <<50, 120, 48>>, <<45, 50, 120, 50>>,
                 <<97, 120, 50>>, <<50, 50>> }

(***************************************************************************)
(* State.                                                                  *)
(***************************************************************************)
VARIABLES
    file_path,       \* argument of picturize_data
    resolution,      \* argument of picturize_data and encode_video
    content,         \* the bytes of the file at file_path
    g_pc,            \* generator: "created", "at68", "at82", "exhausted", "raised"
    g_err,           \* exception the generator raised, or "none"
    width, height,   \* generator locals, bound by line 61
    bytes_per_frame, \* line 62
    file_size,       \* line 64
    file_extension,  \* line 65
    f_open,          \* the handle f of line 70 is open
    f_pos,           \* its read position
    yielded,         \* history of the frames yielded, with the yielding line
    e_pc,            \* encode_video: "popen", "for", "write", "close", "wait",
                     \*               "returned", "raised"
    e_err,           \* exception that left encode_video, or "none"
    frame,           \* loop variable of line 130
    proc,            \* ffmpeg: "none", "running", "exited"
    returncode,      \* its exit status once exited
    stdin_open,      \* process.stdin is open
    pipe             \* what ffmpeg received: one byte string per write

inputs == <<file_path, resolution, content>>
gvars == <<g_pc, g_err, width, height, bytes_per_frame, file_size, file_extension,
           f_open, f_pos, yielded>>
evars == <<e_pc, e_err, frame>>
pvars == <<proc, returncode, stdin_open, pipe>>
vars == <<inputs, gvars, evars, pvars>>

\* The caller has evaluated encode_video(picturize_data(file_path, resolution),
\* ..., resolution, ...): the generator object exists, none of its body has
\* run, and encode_video is about to execute line 127.
Init ==
    /\ file_path \in Paths
    /\ resolution \in Resolutions
    /\ content \in Contents
    /\ g_pc = "created" /\ g_err = "none"
    /\ width = 0 /\ height = 0 /\ bytes_per_frame = 0
    /\ file_size = 0 /\ file_extension = <<>>
    /\ f_open = FALSE /\ f_pos = 0
    /\ yielded = <<>>
    /\ e_pc = "popen" /\ e_err = "none" /\ frame = <<>>
    /\ proc = "none" /\ returncode = 0 /\ stdin_open = FALSE /\ pipe = <<>>

(***************************************************************************)
(* encode_video (lines 126-135) driving picturize_data (lines 61-82).      *)
(***************************************************************************)
\* Line 127: process = subprocess.Popen(command, stdin=subprocess.PIPE).
Popen ==
    /\ e_pc = "popen"
    /\ proc' = "running" /\ stdin_open' = TRUE
    /\ e_pc' = "for"
    /\ UNCHANGED <<inputs, gvars, e_err, frame, returncode, pipe>>

\* An exception raised inside the generator ends it and leaves encode_video
\* through the for statement of line 130; nothing catches it.
GenRaises(e) ==
    /\ g_pc' = "raised" /\ g_err' = e
    /\ e_pc' = "raised" /\ e_err' = e
    /\ UNCHANGED <<f_open, f_pos, yielded, frame>>

\* A yield at the given line hands the frame to the loop body (line 131).
GenYields(line, fr) ==
    /\ g_pc' = (IF line = 68 THEN "at68" ELSE "at82")
    /\ yielded' = Append(yielded, [line |-> line, frame |-> fr])
    /\ frame' = fr
    /\ e_pc' = "write"
    /\ UNCHANGED <<g_err, e_err>>

\* Line 130, first request: the generator body runs lines 61-68.
ForFirst ==
    /\ e_pc = "for" /\ g_pc = "created"
    /\ LET p == ParseResolution(resolution) IN
       IF p.err # "none"
       THEN /\ GenRaises(p.err)
            /\ UNCHANGED <<width, height, bytes_per_frame, file_size, file_extension>>
       ELSE /\ width' = p.width /\ height' = p.height
            /\ bytes_per_frame' = p.width * p.height
            /\ file_size' = Len(content)
            /\ file_extension' = FileExtension(file_path)
            /\ LET m == create_metadata_frame(Len(content), FileExtension(file_path),
                                              p.width, p.height) IN
               IF m.err # "none"
               THEN GenRaises(m.err)
               ELSE GenYields(68, m.frame) /\ UNCHANGED <<f_open, f_pos>>
    /\ UNCHANGED <<inputs, pvars>>

\* Line 130, later requests: the generator resumes after a yield, opens the
\* file if it has not yet (line 70) and reads the next chunk (line 71); an
\* empty chunk leaves the with block, which closes f, and ends the generator.
ForNext ==
    /\ e_pc = "for" /\ g_pc \in {"at68", "at82"}
    /\ LET chunk == ReadChunk(content, f_pos, bytes_per_frame) IN
       IF chunk = <<>>
       THEN /\ f_open' = FALSE
            /\ g_pc' = "exhausted"
            /\ e_pc' = "close"
            /\ UNCHANGED <<f_pos, yielded, frame, g_err, e_err>>
       ELSE /\ f_open' = TRUE
            /\ f_pos' = f_pos + Len(chunk)
            /\ GenYields(82, PayloadFrame(chunk, width, height))
    /\ UNCHANGED <<inputs, width, height, bytes_per_frame, file_size, file_extension, pvars>>

\* A write that puts the frame in front of what was already sent.
WriteInFront ==
    /\ e_pc = "write"
    /\ IF proc = "running"
       THEN /\ pipe' = <<tobytes(frame, width, height)>> \o pipe
            /\ e_pc' = "for" /\ UNCHANGED e_err
       ELSE /\ e_pc' = "raised" /\ e_err' = "BrokenPipeError"
            /\ UNCHANGED pipe
    /\ UNCHANGED <<inputs, gvars, frame, proc, returncode, stdin_open>>

\* Line 131: process.stdin.write(frame).  Writing to the pipe of a process
\* that has exited raises BrokenPipeError, which nothing catches.
Write ==
    /\ e_pc = "write"
    /\ IF proc = "running"
       THEN /\ pipe' = Append(pipe, tobytes(frame, width, height))
            /\ e_pc' = "for" /\ UNCHANGED e_err
       ELSE /\ e_pc' = "raised" /\ e_err' = "BrokenPipeError"
            /\ UNCHANGED pipe
    /\ UNCHANGED <<inputs, gvars, frame, proc, returncode, stdin_open>>

\* The user interrupts the session while the loop of lines 130-131 runs:
\* KeyboardInterrupt propagates out of encode_video (no try/finally).
Interrupt ==
    /\ e_pc \in {"for", "write"}
    /\ e_pc' = "raised" /\ e_err' = "KeyboardInterrupt"
    /\ UNCHANGED <<inputs, gvars, frame, pvars>>

\* Line 134: process.stdin.close().
Close ==
    /\ e_pc = "close"
    /\ stdin_open' = FALSE
    /\ e_pc' = "wait"
    /\ UNCHANGED <<inputs, gvars, e_err, frame, proc, returncode, pipe>>

\* Line 135: process.wait() blocks until ffmpeg has exited; its return value
\* (the exit status) is discarded and encode_video returns None.
Wait ==
    /\ e_pc = "wait" /\ proc = "exited"
    /\ e_pc' = "returned"
    /\ UNCHANGED <<inputs, gvars, e_err, frame, pvars>>

(***************************************************************************)
(* The external ffmpeg process.                                            *)
(***************************************************************************)
\* ffmpeg reads end of input and finishes the video: exit status 0.
TransportFinishes ==
    /\ proc = "running" /\ ~stdin_open
    /\ proc' = "exited" /\ returncode' = 0
    /\ UNCHANGED <<inputs, gvars, evars, stdin_open, pipe>>

\* ffmpeg fails at any moment (bad arguments, unwritable output, killed):
\* non-zero exit status.
TransportFails ==
    /\ proc = "running"
    /\ proc' = "exited" /\ returncode' = 1
    /\ UNCHANGED <<inputs, gvars, evars, stdin_open, pipe>>

Next ==
    \/ Popen
    \/ ForFirst
    \/ ForNext
    \/ Write
    \/ Interrupt
    \/ Close
    \/ Wait
    \/ TransportFinishes
    \/ TransportFails

Spec == Init /\ [][Next]_vars

(***************************************************************************)
(* The decoder the specification describes (the source has none).          *)
(***************************************************************************)
\* One channel of a frame, flattened row-major.
Flatten(fr, ch, w, h) == [i \in 1..(w * h) |-> fr[(i - 1) \div w][(i - 1) % w][ch]]

\* Sentinel scan of one metadata row: the channel-0 values of the columns
\* before the first column whose channel-0 value is 255.
ScanRow(fr, row, w) ==
    LET hits == {c \in 0..(w - 1) : fr[row][c][0] = 255} IN
    IF hits = {} THEN [err |-> "DecodeSentinelNotFound", data |-> <<>>]
    ELSE LET first == CHOOSE c \in hits : \A d \in hits : c <= d
         IN [err |-> "none", data |-> [i \in 1..first |-> fr[row][i - 1][0]]]

\* ASCII digits to an integer, most significant first.
RECURSIVE DigitsToInt(_)
DigitsToInt(d) ==
    IF d = <<>> THEN 0
    ELSE DigitsToInt(SubSeq(d, 1, Len(d) - 1)) * 10 + (d[Len(d)] - 48)

decode_metadata(fr, w) ==
    LET r0 == ScanRow(fr, 0, w)
        r1 == ScanRow(fr, 1, w)
    IN IF r0.err # "none" THEN [err |-> r0.err, file_size |-> 0, extension |-> <<>>]
       ELSE IF r1.err # "none" THEN [err |-> r1.err, file_size |-> 0, extension |-> <<>>]
       ELSE [err |-> "none", file_size |-> DigitsToInt(r0.data), extension |-> r1.data]

\* Channel 0 of frames from..Len(frames), concatenated in order.
RECURSIVE Reassemble(_, _, _, _)
Reassemble(frames, from, w, h) ==
    IF from > Len(frames) THEN <<>>
    ELSE Flatten(frames[from], 0, w, h) \o Reassemble(frames, from + 1, w, h)

\* Frame 1 is the metadata frame; the payload is cut to the recovered size.
decode(frames, w, h) ==
    LET meta == decode_metadata(frames[1], w)
        buf == Reassemble(frames, 2, w, h)
    IN IF meta.err # "none" THEN [err |-> meta.err, data |-> <<>>, extension |-> <<>>]
       ELSE IF Len(buf) < meta.file_size
       THEN [err |-> "TruncatedStream", data |-> <<>>, extension |-> <<>>]
       ELSE [err |-> "none", data |-> SubSeq(buf, 1, meta.file_size),
             extension |-> meta.extension]

(***************************************************************************)
(* Properties.                                                             *)
(***************************************************************************)
Frames == [i \in 1..Len(yielded) |-> yielded[i].frame]

CeilDiv(a, b) == (a + b - 1) \div b

\* What line 61 makes of the resolution argument, for use before and
\* independently of the generator's locals.
PR == ParseResolution(resolution)

SizeLen == Len(Str(Len(content)))
ExtLen == Len(FileExtension(file_path))

\* C1 -- Round trip: once the generator is exhausted, decoding the frames it
\* yielded (sentinel scan of the metadata frame, payload frames flattened on
\* channel 0, concatenated, cut to the recovered size) gives back exactly the
\* file's bytes.
C1_RoundTrip ==
    g_pc = "exhausted" =>
        LET d == decode(Frames, width, height) IN
        d.err = "none" /\ d.data = content

\* A file one byte longer than a frame whose last byte is 0, so that the
\* last data byte looks like padding.
C1_Witness ==
    /\ g_pc = "exhausted"
    /\ Len(content) = bytes_per_frame + 1
    /\ content[Len(content)] = 0
    /\ Len(yielded) = 3
    /\ decode(Frames, width, height).data = content

\* C2 -- Frame count: an exhausted generator has yielded exactly
\* 1 + ceil(len(B) / bytes_per_frame) frames; for an empty file that is the
\* metadata frame alone.
C2_FrameCount ==
    g_pc = "exhausted" =>
        /\ Len(yielded) = 1 + CeilDiv(Len(content), PR.width * PR.height)
        /\ Len(content) = 0 => (Len(yielded) = 1 /\ yielded[1].line = 68)

C2_Witness ==
    /\ g_pc = "exhausted"
    /\ Len(content) % bytes_per_frame # 0
    /\ Len(content) > bytes_per_frame
    /\ Len(yielded) = 1 + CeilDiv(Len(content), bytes_per_frame)

\* The metadata layout: digits then sentinel on row 0, extension then
\* sentinel on row 1, zero elsewhere; data cells equal in all 3 channels,
\* sentinel cells (255, 0, 0).
MetadataLayout(fr, w, h, digits, ext) ==
    /\ DOMAIN fr = 0..(h - 1)
    /\ \A r \in 0..(h - 1) :
         /\ DOMAIN fr[r] = 0..(w - 1)
         /\ \A c \in 0..(w - 1) : \A ch \in 0..2 :
              LET row == IF r = 0 THEN digits ELSE IF r = 1 THEN ext ELSE <<>>
                  used == r \in {0, 1}
              IN fr[r][c][ch] =
                   IF used /\ c < Len(row) THEN row[c + 1]
                   ELSE IF used /\ c = Len(row) THEN (IF ch = 0 THEN 255 ELSE 0)
                   ELSE 0

\* The first request has been served and the metadata fits the row.
MetadataFits ==
    /\ g_pc # "created"
    /\ PR.err = "none" /\ PR.width >= 1 /\ PR.height >= 1
    /\ SizeLen < PR.width /\ ExtLen < PR.width

\* C3 as stated: for every positive width and height and fitting size and
\* extension, a frame is returned whose cells hold the digit codes, the
\* extension character codes and the two sentinels, zero elsewhere.
C3_AsStated ==
    MetadataFits =>
        /\ Len(yielded) >= 1
        /\ MetadataLayout(yielded[1].frame, PR.width, PR.height,
                          Str(Len(content)), FileExtension(file_path))

\* Every extension character fits a byte.
ExtFitsByte == \A i \in 1..ExtLen : FileExtension(file_path)[i] \in 0..255

\* C3 -- Metadata frame layout, amended: for width >= 1, height >= 2,
\* fitting size and fitting extension of character codes at most 255, the
\* frame returned holds the digit codes on row 0 and the extension character
\* codes on row 1, each followed by the sentinel (255, 0, 0), and 0 in every
\* other cell.
C3_Layout ==
    (MetadataFits /\ PR.height >= 2 /\ ExtFitsByte) =>
        /\ Len(yielded) >= 1
        /\ yielded[1].line = 68
        /\ MetadataLayout(yielded[1].frame, PR.width, PR.height,
                          Str(Len(content)), FileExtension(file_path))

C3_Witness ==
    /\ MetadataFits /\ PR.height >= 2 /\ ExtFitsByte
    /\ Len(yielded) >= 1
    /\ SizeLen = 2 /\ ExtLen = 2
    /\ yielded[1].frame[0][2][0] = 255 /\ yielded[1].frame[1][2][0] = 255

\* The size or the extension needs the sentinel's column or more.
Overflow ==
    /\ g_pc # "created"
    /\ PR.err = "none" /\ PR.width >= 1 /\ PR.height >= 1
    /\ (SizeLen >= PR.width \/ ExtLen >= PR.width)

C5_AsStated ==
    (MetadataFits /\ Len(yielded) >= 1) =>
        LET m == decode_metadata(yielded[1].frame, PR.width) IN
        /\ m.err = "none"
        /\ m.file_size = Len(content)
        /\ m.extension = FileExtension(file_path)

ExtBelow255 == \A i \in 1..ExtLen : FileExtension(file_path)[i] \in 0..254

\* C5 -- Metadata fidelity, amended: for every fitting size and every
\* fitting extension whose character codes are all below 255, the sentinel
\* scan of rows 0 and 1 of the returned frame recovers exactly
\* (file_size, extension).
C5_Fidelity ==
    (MetadataFits /\ ExtBelow255 /\ Len(yielded) >= 1) =>
        LET m == decode_metadata(yielded[1].frame, PR.width) IN
        /\ m.err = "none"
        /\ m.file_size = Len(content)
        /\ m.extension = FileExtension(file_path)

C5_Witness ==
    /\ MetadataFits /\ ExtBelow255 /\ Len(yielded) >= 1
    /\ Len(content) = 10 /\ ExtLen = 3
    /\ decode_metadata(yielded[1].frame, PR.width).extension = <<98, 105, 110>>

\* Byte k (from 1) of the window of payload frame i (from 1), zero past the
\* end of the file.
WindowByte(i, k) ==
    LET at == (i - 1) * (PR.width * PR.height) + k IN
    IF at <= Len(content) THEN content[at] ELSE 0

\* C6 -- Payload content and padding: the i-th payload frame, flattened
\* row-major on any channel, is the i-th bytes_per_frame window of the file,
\* with zero bytes after the end of the file; the three channels of every
\* payload pixel are equal.
C6_Payload ==
    \A j \in 2..Len(yielded) :
        /\ yielded[j].line = 82
        /\ \A ch \in 0..2 :
             Flatten(yielded[j].frame, ch, PR.width, PR.height) =
                 [k \in 1..(PR.width * PR.height) |-> WindowByte(j - 1, k)]
        /\ (j - 2) * (PR.width * PR.height) < Len(content)

C6_Witness ==
    /\ g_pc = "exhausted"
    /\ Len(yielded) = 3
    /\ Len(content) % bytes_per_frame = 1
    /\ content[Len(content)] # 0
    /\ Flatten(yielded[3].frame, 1, width, height)[1] = content[Len(content)]
    /\ Flatten(yielded[3].frame, 1, width, height)[2] = 0

\* The resolution argument is invalid: a part is not a number, there are not
\* two parts, or width or height is zero or negative.
InvalidResolution == PR.err # "none" \/ PR.width <= 0 \/ PR.height <= 0

\* C7 -- Invalid resolution: no frame is yielded, none is written, and the
\* external process is not started.
C7_AsStated ==
    InvalidResolution => (yielded = <<>> /\ pipe = <<>> /\ proc = "none")

\* The order of the frames yielded so far and of the bytes written so far.
C8_Order ==
    /\ Len(yielded) >= 1 => yielded[1].line = 68
    /\ \A j \in 2..Len(yielded) :
         /\ yielded[j].line = 82
         /\ yielded[j].frame =
               PayloadFrame(ReadChunk(content, (j - 2) * bytes_per_frame, bytes_per_frame),
                            width, height)
    /\ Len(pipe) <= Len(yielded)
    /\ Len(yielded) <= Len(pipe) + 1
    /\ \A j \in 1..Len(pipe) : pipe[j] = tobytes(yielded[j].frame, width, height)
    /\ g_pc = "exhausted" =>
         /\ Len(pipe) = Len(yielded)
         /\ Len(yielded) >= 1
         /\ (Len(yielded) - 1) * bytes_per_frame >= Len(content)

\* One step adds at most one frame at the end of each stream, and none once
\* the generator is exhausted.
C8_Step ==
    /\ \/ yielded' = yielded
       \/ /\ Len(yielded') = Len(yielded) + 1
          /\ SubSeq(yielded', 1, Len(yielded)) = yielded
    /\ \/ pipe' = pipe
       \/ /\ Len(pipe') = Len(pipe) + 1
          /\ SubSeq(pipe', 1, Len(pipe)) = pipe
    /\ g_pc = "exhausted" => (g_pc' = "exhausted" /\ yielded' = yielded /\ pipe' = pipe)

\* C8 -- Frame stream ordering: the frames follow Start -> Metadata ->
\* Payload(1..N) -> Done: one metadata frame first, then the payload frames
\* in read order without gap or repeat, written to the pipe in the same
\* order, and nothing after the generator is exhausted.
C8_Ordering == [](C8_Order) /\ [][C8_Step]_vars

C8_Witness ==
    /\ e_pc = "returned" /\ g_pc = "exhausted"
    /\ Len(pipe) = 4
    /\ pipe[2] # pipe[3] /\ pipe[3] # pipe[4]

\* C9 -- Transport failure is propagated: encode_video never returns
\* normally after the external process has failed.
C9_AsStated ==
    e_pc = "returned" => ~(proc = "exited" /\ returncode # 0)

\* C10 -- Cancellation cleanup: no session that stopped before the generator
\* was exhausted ends with the file handle open or with the external process
\* still running on an open stdin.
C10_AsStated ==
    (e_pc = "raised" /\ g_pc \in {"at68", "at82"}) =>
        (~f_open /\ ~(proc = "running" /\ stdin_open))

====
